---- MODULE Spec2Model ----
(***************************************************************************)
(* A model of chromiumoxide's src/browser/mod.rs: the Browser facade       *)
(* (connect, launch, execute, new_page, Drop), the envelopes it puts on    *)
(* the control channel, and the parts of its surroundings the facade's     *)
(* behaviour depends on: the futures mpsc channel created by channel(1),   *)
(* the oneshot reply slots, the Handler that drains the channel, the       *)
(* remote browser on the other side of the socket and the spawned process. *)
(*                                                                         *)
(* The state machines of the module:                                       *)
(*   Spec       callers running execute / new_page against the Handler     *)
(*   FairSpec   Spec with the fairness of a driven executor                *)
(*   QueueSpec  the submission side of Spec alone, with more callers       *)
(*   LifeSpec   launch / connect / drop of Browser handles and processes   *)
(*   ScanSpec   ws_url_from_output reading the diagnostic stream under     *)
(*              the deadline of launch                                     *)
(*   ExeSpec    default_executable in every environment                    *)
(*   ConfigSpec BrowserConfigBuilder, build and BrowserConfig::launch      *)
(***************************************************************************)
EXTENDS Naturals, Sequences, FiniteSets

\* ------------------------------------------------------------- bounds
\* Number of concurrent callers of execute / new_page on one Browser.
NumCallers == 2
\* Pieces of text (line terminators included) read from the diagnostic stream.
MaxRead == 6
\* Extensions pushed onto one builder.
MaxExt == 2
\* Pairs passed to one call of envs.
MaxEnvs == 2
\* Number of concurrent callers in QueueSpec.
NumSenders == 3
\* Browser handles created through launch or connect.
NumBrowsers == 2

\* ---------------------------------------------------- program constants
\* channel(1): the buffer argument of the control channel.
ChannelBuffer == 1

Browsers == 1..NumBrowsers

VARIABLES
  \* --- callers of the facade
  pc,          \* pc[c]: where caller c is in execute / new_page
  op,          \* op[c]: "none" | "execute" | "new_page"
  outcome,     \* outcome[c]: what the call returned
  target_id,   \* target_id[c]: new_page's local target_id (0: none)
  slot,        \* slot[c]: the oneshot channel created by c's execute
  \* --- the control channel (futures::channel::mpsc, channel(1))
  chan,        \* message queue
  parked,      \* parked_queue: senders waiting to be unparked
  chanOpen,    \* the Receiver is alive and not closed
  \* --- the Handler
  hstate,      \* "running" | "terminated"
  nextId,      \* next request identity
  pending,     \* correlation map: set of [id, slot, method]
  tabs,        \* tab registry: set of [target, rx]
  lastTarget,  \* most recently created target (0: none)
  \* --- the socket and the remote browser
  sockOpen,
  wire,        \* request frames written and not yet answered
  answer,      \* what the remote answered: set of [params, id, method, kind, val]
  \* --- observation of the run
  accepted,    \* envelopes the Handler took from the channel
  deliveries,  \* deliveries[c]: replies delivered into c's slot
  returned,    \* returned[c]: times c's execute returned a value
  sent,        \* envelopes pushed onto the channel's queue
  \* --- launch / connect / drop
  bpc,         \* bpc[b]: where handle b is in its life
  how,         \* how[b]: "none" | "launch" | "connect"
  proc,        \* proc[b]: "none" | "running" | "exited" | "killed"
  child,       \* child[b]: who holds the Child handle
  kills,       \* kills[b]: calls of Child::kill
  killErr,     \* killErr[b]: a kill call returned Err
  \* --- address discovery (ws_url_from_output under launch's deadline)
  line,        \* the String that read_line appends to
  nread,       \* pieces of text read from the diagnostic stream so far
  ws_url,      \* what the scan returned (<<>>: it has not returned)
  launchRes,   \* what launch did with the scan: "pending" | "DiscoveryTimeout" | "connect"
  eof,         \* the diagnostic stream has ended
  firstMatch,  \* the address on the first matching line read (<<>>: none yet)
  \* --- the environment default_executable looks at
  envChrome,   \* the variable CHROME: "unset" | "exists" | "missing" (set, no such path)
  onPath,      \* names of the search list that which::which resolves
  platform,    \* target_os of the build: "linux" | "macos" | "windows"
  fallback,    \* the platform's well-known install location exists
  exeResult,   \* what a call of default_executable returned
  \* --- BrowserConfigBuilder, BrowserConfig and the Command of launch
  builder,     \* the BrowserConfigBuilder
  config,      \* what build returned
  consulted,   \* build called default_executable
  cmd          \* the process::Command that BrowserConfig::launch spawned

callVars == <<pc, op, outcome, target_id>>
chanVars == <<chan, parked, chanOpen>>
handVars == <<hstate, nextId, pending, tabs, lastTarget>>
sockVars == <<sockOpen, wire, answer>>
obsVars == <<accepted, deliveries, returned, sent>>
protoVars == <<callVars, slot, chanVars, handVars, sockVars, obsVars>>
lifeVars == <<bpc, how, proc, child, kills, killErr>>
scanVars == <<line, nread, ws_url, launchRes, eof, firstMatch>>
envVars == <<envChrome, onPath, platform, fallback>>
configVars == <<envVars, exeResult, builder, config, consulted, cmd>>
toolVars == <<scanVars, configVars>>
vars == <<protoVars, lifeVars, toolVars>>

\* The tasks that call the facade.
Callers == DOMAIN pc

\* ------------------------------------------------------------- values
NoPayload == [some |-> FALSE, shape |-> "-", val |-> 0]
NoOutcome == [tag |-> "None", val |-> 0, err |-> "-"]
Ok(v) == [tag |-> "Ok", val |-> v, err |-> "-"]
Err(e) == [tag |-> "Err", val |-> 0, err |-> e]
PageOf(t) == [tag |-> "Page", val |-> t, err |-> "-"]

\* The two failures of execute that mean the Handler is gone: the send on
\* the control channel failed, or the oneshot sender was dropped.
HandlerGone == {Err("SendError"), Err("Canceled")}

EmptySlot == [st |-> "empty", resp |-> [id |-> 0, result |-> NoPayload, error |-> FALSE]]
NoSlot == [st |-> "none", resp |-> EmptySlot.resp]
DroppedSlot == [st |-> "dropped", resp |-> EmptySlot.resp]
FilledSlot(r) == [st |-> "filled", resp |-> r]

\* The method identifier of the command each operation submits.
MethodOf(o) == IF o = "new_page" THEN "Target.createTarget" ELSE "Browser.method"

\* CommandMessage::new: the envelope carries the caller's own reply slot.
CommandMessageShared(c, method) ==
  [type |-> "Command", method |-> method, session_id |-> 0, params |-> c, sender |-> 1]

CommandMessageNew(c, method) ==
  [type |-> "Command", method |-> method, session_id |-> 0, params |-> c, sender |-> c]

\* BrowserMessage::RegisterTab(from_commands): the receiving end of the
\* channel created by this new_page call, and nothing else.
RegisterTabMsg(c) ==
  [type |-> "RegisterTab", method |-> "-", session_id |-> 0, params |-> 0, sender |-> c]

Range(q) == {q[i] : i \in DOMAIN q}

\* ------------------------------------------------ the control channel
\* futures mpsc, BoundedSenderInner::do_send_b: the message is always
\* pushed; the sender parks when the message count exceeds the buffer.
SendParksNever(n) == FALSE

SendParks(n) == n > ChannelBuffer

\* The message queue of the channel: a message that is sent goes behind the
\* messages already queued.
EnqueueFront(q, msg) == <<msg>> \o q

Enqueue(q, msg) == Append(q, msg)

\* self.sender.clone().send(msg): poll_ready and start_send of a fresh
\* clone.  A fresh clone is never parked, so the message is queued unless
\* the channel is closed.  The caller continues at next when the send
\* completes at once and waits at flush when the sender was parked.
Send(c, msg, next, flush) ==
  IF ~chanOpen
  THEN /\ pc' = [pc EXCEPT ![c] = "done"]
       /\ outcome' = [outcome EXCEPT ![c] = Err("SendError")]
       /\ UNCHANGED <<chan, parked, sent>>
  ELSE /\ chan' = Enqueue(chan, msg)
       /\ sent' = sent \cup {msg}
       /\ IF SendParks(Len(chan) + 1)
          THEN /\ parked' = Append(parked, c)
               /\ pc' = [pc EXCEPT ![c] = flush]
          ELSE /\ parked' = parked
               /\ pc' = [pc EXCEPT ![c] = next]
       /\ UNCHANGED outcome

\* poll_flush of the Send future: ready once the sender is unparked (or the
\* channel is closed, which empties the parked queue).
Unparked(c) == c \notin Range(parked)

\* ------------------------------------------------------------ execute
\* rx.await: the oneshot resolves when a value was sent or the sender was
\* dropped.
RxReadyOnlyFilled(s) == s.st = "filled"

RxReady(s) == s.st \in {"filled", "dropped"}

\* Lines 150-161: the reply is mapped to the result of execute.
ExecuteResultNoValue(resp) == Err("Empty Response")

ExecuteResultEmptyOk(resp) ==
  IF resp.result.some
  THEN IF resp.result.shape = "ok" THEN Ok(resp.result.val) ELSE Err("Deserialize")
  ELSE IF resp.error THEN Err("Protocol") ELSE Ok(0)

ExecuteResult(resp) ==
  IF resp.result.some
  THEN IF resp.result.shape = "ok" THEN Ok(resp.result.val) ELSE Err("Deserialize")
  ELSE IF resp.error THEN Err("Protocol") ELSE Err("Empty Response")

\* Line 148, rx.await?: the reply that was sent, or the Canceled error of a
\* oneshot whose sender was dropped.
AwaitResultDroppedOk(s) ==
  IF s.st = "filled" THEN ExecuteResult(s.resp) ELSE Ok(0)

AwaitResult(s) ==
  IF s.st = "filled" THEN ExecuteResult(s.resp) ELSE Err("Canceled")

\* The ? after self.execute(params).await in new_page.
NewPageProceedsAlways(r) == TRUE

NewPageProceeds(r) == r.tag = "Ok"

\* Lines 140-147: a task calls execute (directly or at the start of
\* new_page): oneshot_channel(), CommandMessage::new and the send of the
\* Command envelope on a clone of the sender.  (Serializing the parameters
\* of a protocol command, the ? of line 142, is taken to succeed.)
CallerSubmit(c) ==
  /\ pc[c] = "idle"
  /\ \E o \in {"execute", "new_page"} :
       /\ op' = [op EXCEPT ![c] = o]
       /\ Send(c, CommandMessageNew(c, MethodOf(o)), "await", "flush")
  /\ slot' = [slot EXCEPT ![c] = IF chanOpen THEN EmptySlot ELSE DroppedSlot]
  /\ UNCHANGED <<target_id, chanOpen, handVars, sockVars, accepted, deliveries,
                 returned, lifeVars, toolVars>>

\* The send completes once the Handler made room.
CallerFlush(c) ==
  /\ pc[c] = "flush"
  /\ Unparked(c)
  /\ pc' = [pc EXCEPT ![c] = "await"]
  /\ UNCHANGED <<op, outcome, target_id, slot, chanVars, handVars, sockVars,
                 obsVars, lifeVars, toolVars>>

\* Lines 148-161: the reply slot resolves and execute returns; new_page
\* goes on to register the tab only when execute returned Ok.
CallerAwait(c) ==
  /\ pc[c] = "await"
  /\ RxReady(slot[c])
  /\ LET r == AwaitResult(slot[c])
     IN /\ returned' = [returned EXCEPT ![c] = @ + (IF r.tag = "Ok" THEN 1 ELSE 0)]
        /\ IF op[c] = "new_page" /\ NewPageProceeds(r)
           THEN /\ target_id' = [target_id EXCEPT ![c] = r.val]
                /\ pc' = [pc EXCEPT ![c] = "reg_send"]
                /\ UNCHANGED outcome
           ELSE /\ outcome' = [outcome EXCEPT ![c] = r]
                /\ pc' = [pc EXCEPT ![c] = "done"]
                /\ UNCHANGED target_id
  /\ slot' = [slot EXCEPT ![c] = IF @.st = "filled" THEN [@ EXCEPT !.st = "taken"] ELSE @]
  /\ UNCHANGED <<op, chanVars, handVars, sockVars, accepted, deliveries, sent,
                 lifeVars, toolVars>>

\* ----------------------------------------------------------- new_page
\* Lines 120-125: channel(1) for the tab, RegisterTab sent on a clone.
NewPageRegister(c) ==
  /\ pc[c] = "reg_send"
  /\ Send(c, RegisterTabMsg(c), "page_new", "reg_flush")
  /\ UNCHANGED <<op, target_id, slot, chanOpen, handVars, sockVars, accepted,
                 deliveries, returned, lifeVars, toolVars>>

NewPageFlush(c) ==
  /\ pc[c] = "reg_flush"
  /\ Unparked(c)
  /\ pc' = [pc EXCEPT ![c] = "page_new"]
  /\ UNCHANGED <<op, outcome, target_id, slot, chanVars, handVars, sockVars,
                 obsVars, lifeVars, toolVars>>

\* Line 126: Page::new(target_id, commands).await? builds the handle or
\* fails.
NewPageReturn(c) ==
  /\ pc[c] = "page_new"
  /\ \E ok \in BOOLEAN :
       outcome' = [outcome EXCEPT ![c] = IF ok THEN PageOf(target_id[c]) ELSE Err("Page")]
  /\ pc' = [pc EXCEPT ![c] = "done"]
  /\ UNCHANGED <<op, target_id, slot, chanVars, handVars, sockVars, obsVars,
                 lifeVars, toolVars>>

\* -------------------------------------------------------- the Handler
\* Receiver::next_message: pop the oldest message and unpark one sender.
UnparkOne(q) == IF q = <<>> THEN q ELSE Tail(q)

RequestFrame(id, msg) ==
  [id |-> id, method |-> msg.method, session_id |-> msg.session_id, params |-> msg.params]

\* RegisterTab carries no target identity: the registry entry is keyed by
\* the most recently created target.
InsertTab(reg, t, rx) == {e \in reg : e.target # t} \cup {[target |-> t, rx |-> rx]}

\* The Handler takes the next envelope from the control channel.
HandlerAccept ==
  /\ hstate = "running"
  /\ sockOpen
  /\ chan # <<>>
  /\ LET msg == Head(chan)
     IN /\ chan' = Tail(chan)
        /\ parked' = UnparkOne(parked)
        /\ accepted' = accepted \cup {msg}
        /\ IF msg.type = "Command"
           THEN /\ wire' = wire \cup {RequestFrame(nextId, msg)}
                /\ pending' = pending \cup
                     {[id |-> nextId, slot |-> msg.sender, method |-> msg.method]}
                /\ nextId' = nextId + 1
                /\ UNCHANGED tabs
           ELSE /\ tabs' = IF lastTarget = 0 THEN tabs
                           ELSE InsertTab(tabs, lastTarget, msg.sender)
                /\ UNCHANGED <<wire, pending, nextId>>
  /\ UNCHANGED <<callVars, slot, chanOpen, hstate, lastTarget, sockOpen, answer,
                 deliveries, returned, sent, lifeVars, toolVars>>

ResponseOf(f) == [id |-> f.id, result |-> f.result, error |-> f.error]

\* The tab channels a session frame is forwarded to.
Forward(reg, f) == {e.rx : e \in {x \in reg : f.kind = "event" /\ x.target = f.session}}

\* The Handler takes a frame from the socket: a reply goes to the slot
\* stored under its identity (and the entry is removed), a session frame
\* to the registered tab, anything else is discarded.
OnFrame(f) ==
  LET hit == {p \in pending : f.kind = "reply" /\ p.id = f.id}
  IN /\ pending' = pending \ hit
     /\ slot' = [c \in Callers |->
                   IF \E p \in hit : p.slot = c /\ slot[c].st = "empty"
                   THEN FilledSlot(ResponseOf(f)) ELSE slot[c]]
     /\ deliveries' = [c \in Callers |->
                   deliveries[c] + (IF \E p \in hit : p.slot = c THEN 1 ELSE 0)]
     /\ lastTarget' =
          IF \E p \in hit : p.method = "Target.createTarget"
                            /\ f.result.some /\ f.result.shape = "ok"
          THEN f.result.val ELSE lastTarget

\* The socket is closed: every pending slot is dropped, the Receiver is
\* dropped (which closes the channel, wakes the parked senders and drains
\* the queue, dropping the queued envelopes with their slots), and the loop
\* ends.
HandlerClose ==
  /\ hstate = "running"
  /\ ~sockOpen
  /\ hstate' = "terminated"
  /\ slot' = [c \in Callers |->
                IF /\ slot[c].st = "empty"
                   /\ \/ \E p \in pending : p.slot = c
                      \/ \E i \in DOMAIN chan : chan[i].type = "Command" /\ chan[i].sender = c
                THEN DroppedSlot ELSE slot[c]]
  /\ pending' = {}
  /\ chan' = <<>>
  /\ parked' = <<>>
  /\ chanOpen' = FALSE
  /\ UNCHANGED <<callVars, nextId, tabs, lastTarget, sockVars, obsVars, lifeVars, toolVars>>

\* ------------------------------------------------- the remote browser
\* The socket delivers frames in the order the remote sends them and the
\* Handler takes them one at a time, so a frame's sending and its handling
\* are one step.
ReplyKinds == {"result", "badshape", "error", "empty"}

ReplyFrame(id, kind) ==
  [kind |-> "reply", id |-> id, session |-> 0,
   result |-> IF kind \in {"result", "badshape"}
              THEN [some |-> TRUE, shape |-> IF kind = "result" THEN "ok" ELSE "bad",
                    val |-> id]
              ELSE NoPayload,
   error |-> kind = "error"]

EventFrame(t) ==
  [kind |-> "event", id |-> 0, session |-> t, result |-> NoPayload, error |-> FALSE]

\* Targets the remote created.
Targets == {a.val : a \in {x \in answer : x.method = "Target.createTarget" /\ x.kind = "result"}}

\* The remote answers one outstanding request, in any order.
RemoteAnswer ==
  /\ hstate = "running"
  /\ sockOpen
  /\ \E f \in wire, k \in ReplyKinds :
       /\ wire' = wire \ {f}
       /\ answer' = answer \cup
            {[params |-> f.params, id |-> f.id, method |-> f.method, kind |-> k, val |-> f.id]}
       /\ OnFrame(ReplyFrame(f.id, k))
  /\ UNCHANGED <<callVars, chanVars, hstate, nextId, tabs, sockOpen, accepted,
                 returned, sent, lifeVars, toolVars>>

\* The remote repeats a reply it already sent.
RemoteRepeat ==
  /\ hstate = "running"
  /\ sockOpen
  /\ \E a \in answer : OnFrame(ReplyFrame(a.id, "result"))
  /\ UNCHANGED <<callVars, chanVars, hstate, nextId, tabs, sockVars, accepted,
                 returned, sent, lifeVars, toolVars>>

SocketClose ==
  /\ sockOpen
  /\ sockOpen' = FALSE
  /\ UNCHANGED <<callVars, slot, chanVars, handVars, wire, answer, obsVars, lifeVars, toolVars>>

\* ------------------------------------------------------ specification
\* One Browser handle, its control channel and its Handler, as connect and
\* launch leave them, with the tasks in S about to call the facade.
ProtoInit(S) ==
  /\ pc = [c \in S |-> "idle"]
  /\ op = [c \in S |-> "none"]
  /\ outcome = [c \in S |-> NoOutcome]
  /\ target_id = [c \in S |-> 0]
  /\ slot = [c \in S |-> NoSlot]
  /\ chan = <<>>
  /\ parked = <<>>
  /\ chanOpen = TRUE
  /\ hstate = "running"
  /\ nextId = 1
  /\ pending = {}
  /\ tabs = {}
  /\ lastTarget = 0
  /\ sockOpen = TRUE
  /\ wire = {}
  /\ answer = {}
  /\ accepted = {}
  /\ deliveries = [c \in S |-> 0]
  /\ returned = [c \in S |-> 0]
  /\ sent = {}

\* ------------------------------------------- configuration: values
\* An Option is a sequence of at most one element.
None == <<>>

Some(v) == <<v>>

\* A path is a sequence of strings that tells where it came from.
GivenPath(p) == <<"given", p>>

\* Result<PathBuf, String> of default_executable.
NoExe == [tag |-> "None", path |-> <<>>]

Found(p) == [tag |-> "Ok", path |-> p]

NotFoundError == [tag |-> "Err", path |-> <<"Could not auto detect a chrome executable">>]

\* impl Default for BrowserConfigBuilder.
BuilderDefault ==
  [headless |-> TRUE, sandbox |-> TRUE, window_size |-> None, port |-> 0,
   executable |-> None, extensions |-> <<>>, process_envs |-> None,
   user_data_dir |-> None]

\* No BrowserConfig yet, and the Err of build.
NoConfig ==
  [tag |-> "None", headless |-> TRUE, sandbox |-> TRUE, window_size |-> None,
   port |-> 0, executable |-> <<>>, extensions |-> <<>>, process_envs |-> None,
   user_data_dir |-> None]

BuildError == [NoConfig EXCEPT !.tag = "Err"]

\* No Command was spawned.
NoCmd == [spawned |-> FALSE, program |-> <<>>, args |-> <<>>, envs |-> {}, stderr |-> "-"]

\* Nothing is being configured, on a machine without a browser.
ConfigIdle ==
  /\ envChrome = "unset"
  /\ onPath = {}
  /\ platform = "linux"
  /\ fallback = FALSE
  /\ exeResult = NoExe
  /\ builder = BuilderDefault
  /\ config = NoConfig
  /\ consulted = FALSE
  /\ cmd = NoCmd

\* No scan is running.
ScanIdle ==
  /\ line = <<>>
  /\ nread = 0
  /\ ws_url = <<>>
  /\ launchRes = "pending"
  /\ eof = FALSE
  /\ firstMatch = <<>>

ToolIdle == ScanIdle /\ ConfigIdle

LifeInit ==
  /\ bpc = [b \in Browsers |-> "init"]
  /\ how = [b \in Browsers |-> "none"]
  /\ proc = [b \in Browsers |-> "none"]
  /\ child = [b \in Browsers |-> "none"]
  /\ kills = [b \in Browsers |-> 0]
  /\ killErr = [b \in Browsers |-> FALSE]

Init == ProtoInit(1..NumCallers) /\ LifeInit /\ ToolIdle

Next ==
  \/ \E c \in Callers : CallerSubmit(c)
  \/ \E c \in Callers : CallerFlush(c)
  \/ \E c \in Callers : CallerAwait(c)
  \/ \E c \in Callers : NewPageRegister(c)
  \/ \E c \in Callers : NewPageFlush(c)
  \/ \E c \in Callers : NewPageReturn(c)
  \/ HandlerAccept
  \/ HandlerClose
  \/ RemoteAnswer
  \/ RemoteRepeat
  \/ SocketClose

Spec == Init /\ [][Next]_vars

\* The executor polls a woken task again and the Handler's loop is driven:
\* a caller whose send or reply slot is ready continues, and a Handler whose
\* socket closed ends its loop.
Fairness ==
  /\ \A c \in 1..NumCallers : WF_vars(CallerFlush(c)) /\ WF_vars(CallerAwait(c))
  /\ WF_vars(HandlerClose)

FairSpec == Spec /\ Fairness

\* The submission side alone: callers submit, the Handler accepts.
QueueInit == ProtoInit(1..NumSenders) /\ LifeInit /\ ToolIdle

QueueNext ==
  \/ \E c \in Callers : CallerSubmit(c)
  \/ \E c \in Callers : CallerFlush(c)
  \/ HandlerAccept

QueueSpec == QueueInit /\ [][QueueNext]_vars

\* ------------------------------------------- launch, connect and Drop
\* Browser::connect, lines 48-63: the handle owns no process.
Connect(b) ==
  /\ bpc[b] = "init"
  /\ how' = [how EXCEPT ![b] = "connect"]
  /\ \E ok \in BOOLEAN : bpc' = [bpc EXCEPT ![b] = IF ok THEN "live" ELSE "failed"]
  /\ UNCHANGED <<proc, child, kills, killErr, protoVars, toolVars>>

\* Line 74: config.launch()? spawns the process; the Child is a local of
\* launch.
LaunchSpawn(b) ==
  /\ bpc[b] = "init"
  /\ how' = [how EXCEPT ![b] = "launch"]
  /\ \E ok \in BOOLEAN :
       IF ok
       THEN /\ bpc' = [bpc EXCEPT ![b] = "discover"]
            /\ proc' = [proc EXCEPT ![b] = "running"]
            /\ child' = [child EXCEPT ![b] = "local"]
       ELSE /\ bpc' = [bpc EXCEPT ![b] = "failed"]
            /\ UNCHANGED <<proc, child>>
  /\ UNCHANGED <<kills, killErr, protoVars, toolVars>>

\* An early return of launch through ? drops the local Child.  std's Child
\* has no Drop implementation: the handle goes, the process stays.
ChildAfterError(ch) == "dropped"

\* Lines 77-80: the address is found, or the 20 s deadline expires and ?
\* returns the error.
LaunchDiscover(b) ==
  /\ bpc[b] = "discover"
  /\ \E found \in BOOLEAN :
       IF found
       THEN /\ bpc' = [bpc EXCEPT ![b] = "connecting"]
            /\ UNCHANGED child
       ELSE /\ bpc' = [bpc EXCEPT ![b] = "failed"]
            /\ child' = [child EXCEPT ![b] = ChildAfterError(child[b])]
  /\ UNCHANGED <<how, proc, kills, killErr, protoVars, toolVars>>

\* Where launch stores the Child of a successful launch (line 92).
ChildStored(ch) == "browser"

\* Lines 82-96: Connection::connect(...).await?, then the Browser is built
\* with child: Some(child).
LaunchConnect(b) ==
  /\ bpc[b] = "connecting"
  /\ \E ok \in BOOLEAN :
       IF ok
       THEN /\ bpc' = [bpc EXCEPT ![b] = "live"]
            /\ child' = [child EXCEPT ![b] = ChildStored(child[b])]
       ELSE /\ bpc' = [bpc EXCEPT ![b] = "failed"]
            /\ child' = [child EXCEPT ![b] = ChildAfterError(child[b])]
  /\ UNCHANGED <<how, proc, kills, killErr, protoVars, toolVars>>

\* The spawned browser ends by itself (it crashes, or is closed).
ProcExit(b) ==
  /\ proc[b] = "running"
  /\ proc' = [proc EXCEPT ![b] = "exited"]
  /\ UNCHANGED <<bpc, how, child, kills, killErr, protoVars, toolVars>>

\* Line 167: if let Some(child) = self.child.as_mut().
DropKillsNever(ch) == FALSE

DropKillsAlways(ch) == TRUE

DropKills(ch) == ch = "browser"

\* Child::kill, which the code never precedes by wait or try_wait: it
\* signals a process that still runs; on one that already ended the result
\* is the platform's (the signal to a zombie succeeds, TerminateProcess on
\* an ended process fails).
KillResults(p) == IF p = "running" THEN {"Ok"} ELSE {"Ok", "Err"}

\* Line 168: .expect("!kill") panics on Err.
ExpectPanics(res) == res = "Err"

\* Lines 165-171: Drop for Browser.
Drop(b) ==
  /\ bpc[b] = "live"
  /\ IF DropKills(child[b])
     THEN \E res \in KillResults(proc[b]) :
            /\ kills' = [kills EXCEPT ![b] = @ + 1]
            /\ killErr' = [killErr EXCEPT ![b] = res = "Err"]
            /\ proc' = [proc EXCEPT ![b] = IF res = "Ok" /\ @ = "running" THEN "killed" ELSE @]
            /\ bpc' = [bpc EXCEPT ![b] = IF ExpectPanics(res) THEN "panicked" ELSE "dropped"]
     ELSE /\ bpc' = [bpc EXCEPT ![b] = "dropped"]
          /\ UNCHANGED <<kills, killErr, proc>>
  /\ UNCHANGED <<how, child, protoVars, toolVars>>

LifeNext ==
  \/ \E b \in Browsers : Connect(b)
  \/ \E b \in Browsers : LaunchSpawn(b)
  \/ \E b \in Browsers : LaunchDiscover(b)
  \/ \E b \in Browsers : LaunchConnect(b)
  \/ \E b \in Browsers : ProcExit(b)
  \/ \E b \in Browsers : Drop(b)

LifeSpec == Init /\ [][LifeNext]_vars

\* ------------------------------------------------- address discovery
\* The diagnostic stream is text.  The model cuts it into the pieces the
\* scan of ws_url_from_output can tell apart:
\*   "L"  the marker "listening on "
\*   "w"  text that begins with "ws", such as "ws://127.0.0.1:9222/"
\*   "d"  text that contains "devtools/browser" and does not begin with "ws"
\*   "o"  any other text, such as "DevTools "
\*   "n"  the line terminator
Pieces == {"L", "w", "d", "o"}

Newline == "n"

SeqsUpTo(S, n) == UNION {[1..k -> S] : k \in 0..n}

\* line.rsplit("listening on ").next(): the text after the last marker, the
\* whole text when it holds no marker.
AfterLastMarker(s) ==
  LET at == {i \in DOMAIN s : s[i] = "L"}
  IN IF at = {} THEN s
     ELSE SubSeq(s, (CHOOSE i \in at : \A j \in at : j <= i) + 1, Len(s))

\* ws.starts_with("ws") && ws.contains("devtools/browser")
IsAddress(ws) == /\ ws # <<>>
                 /\ ws[1] = "w"
                 /\ \E i \in DOMAIN ws : ws[i] = "d"

\* ws.trim(): leading and trailing whitespace is removed.  Of the pieces
\* only the line terminator is whitespace, and text that begins with "ws"
\* has none in front.
RECURSIVE Trim(_)
Trim(s) ==
  IF s # <<>> /\ s[Len(s)] = Newline THEN Trim(SubSeq(s, 1, Len(s) - 1)) ELSE s

\* The check of lines 227-231 applied to one line of the stream on its own.
LineMatches(l) == IsAddress(AfterLastMarker(l))

\* The address that line carries.
AddressOf(l) == Trim(AfterLastMarker(l))

\* buf.read_line(&mut line) returned Ok after reading the line l: the line
\* and its terminator are appended to the String, which is then checked.
ReadLine(l) ==
  /\ ws_url = <<>>
  /\ ~eof
  /\ nread + Len(l) + 1 <= MaxRead
  /\ LET buf == line \o l \o <<Newline>>
         ws == AfterLastMarker(buf)
     IN /\ line' = buf
        /\ ws_url' = IF IsAddress(ws) THEN Trim(ws) ELSE <<>>
  /\ nread' = nread + Len(l) + 1
  /\ firstMatch' = IF firstMatch = <<>> /\ LineMatches(l \o <<Newline>>)
                   THEN AddressOf(l \o <<Newline>>)
                   ELSE firstMatch
  /\ UNCHANGED <<launchRes, eof, configVars, protoVars, lifeVars>>

\* read_line returned Err (a line that is not UTF-8): nothing was appended,
\* and the else branch replaces the String by an empty one.
ReadError ==
  /\ ws_url = <<>>
  /\ ~eof
  /\ nread < MaxRead
  /\ line' = <<>>
  /\ nread' = nread + 1
  /\ UNCHANGED <<ws_url, launchRes, eof, firstMatch, configVars, protoVars, lifeVars>>

\* read_line returned Ok(0), the stream has ended: nothing is appended, the
\* String is checked again and the loop goes on.
ReadEof ==
  /\ ws_url = <<>>
  /\ eof' = TRUE
  /\ ws_url' = IF IsAddress(AfterLastMarker(line)) THEN Trim(AfterLastMarker(line)) ELSE <<>>
  /\ UNCHANGED <<line, nread, launchRes, firstMatch, configVars, protoVars, lifeVars>>

\* future::timeout(dur, get_ws_url).await?: the 20 seconds passed before
\* the scan returned, and launch returns the timeout error.
DeadlineExpires ==
  /\ launchRes = "pending"
  /\ ws_url = <<>>
  /\ launchRes' = "DiscoveryTimeout"
  /\ UNCHANGED <<line, nread, ws_url, eof, firstMatch, configVars, protoVars, lifeVars>>

\* The scan returned in time: launch goes on to Connection::connect with
\* what the scan returned.
LaunchGotUrl ==
  /\ launchRes = "pending"
  /\ ws_url # <<>>
  /\ launchRes' = "connect"
  /\ UNCHANGED <<line, nread, ws_url, eof, firstMatch, configVars, protoVars, lifeVars>>

ScanNext ==
  \/ \E l \in SeqsUpTo(Pieces, MaxRead) : ReadLine(l)
  \/ ReadError
  \/ ReadEof
  \/ DeadlineExpires
  \/ LaunchGotUrl

ScanSpec == Init /\ [][ScanNext]_vars

\* ------------------------------------------------- default_executable
\* The names default_executable hands to which::which, in its order.
SearchList ==
  <<"google-chrome-stable", "chromium", "chromium-browser", "chrome", "chrome-browser">>

ChromeVarPath == <<"env", "CHROME">>

WhichPath(app) == <<"which", app>>

PlatformPath(os) == <<"install", os>>

\* Lines 454-458: std::env::var("CHROME") is Ok and the path exists.
EnvOverrideIfSet(chromeVar) == chromeVar # "unset"

EnvOverride(chromeVar) == chromeVar = "exists"

\* Lines 468-492: the cfg(target_os = "macos") and cfg(windows) blocks.
PlatformResolves(os, exists) == os \in {"macos", "windows"} /\ exists

\* default_executable in the environment env = [chrome, path, os, install].
DefaultExecutable(env) ==
  IF EnvOverride(env.chrome) THEN Found(ChromeVarPath)
  ELSE LET hits == {i \in DOMAIN SearchList : SearchList[i] \in env.path}
       IN IF hits # {}
          THEN Found(WhichPath(SearchList[CHOOSE i \in hits : \A j \in hits : i <= j]))
          ELSE IF PlatformResolves(env.os, env.install)
               THEN Found(PlatformPath(env.os))
               ELSE NotFoundError

\* The environment of this state.
Environment ==
  [chrome |-> envChrome, path |-> onPath, os |-> platform, install |-> fallback]

\* A call of default_executable.
CallDefaultExecutable ==
  /\ exeResult = NoExe
  /\ exeResult' = DefaultExecutable(Environment)
  /\ UNCHANGED <<envVars, builder, config, consulted, cmd, scanVars, protoVars, lifeVars>>

\* Every environment default_executable can run in.
ExeInit ==
  /\ ProtoInit(1..NumCallers) /\ LifeInit /\ ScanIdle
  /\ envChrome \in {"unset", "exists", "missing"}
  /\ onPath \in SUBSET Range(SearchList)
  /\ platform \in {"linux", "macos", "windows"}
  /\ fallback \in BOOLEAN
  /\ exeResult = NoExe
  /\ builder = BuilderDefault
  /\ config = NoConfig
  /\ consulted = FALSE
  /\ cmd = NoCmd

ExeNext == CallDefaultExecutable

ExeSpec == ExeInit /\ [][ExeNext]_vars

\* ------------------------------- BrowserConfigBuilder and BrowserConfig
\* What the callers of the builder pass in.
WindowSizes == {<<800, 600>>}

Dirs == {"d1"}

Paths == {"p1"}

Extensions == {"e1", "e2"}

EnvPairs == {<<"K1", "v1">>, <<"K1", "v2">>}

\* HashMap::insert: a map is a set of <<key, value>> with one value per key.
Insert(m, kv) == {x \in m : x[1] # kv[1]} \cup {kv}

\* HashMap::extend: the pairs are inserted in the order of the iterator.
RECURSIVE Extend(_, _)
Extend(m, it) == IF it = <<>> THEN m ELSE Extend(Insert(m, Head(it)), Tail(it))

\* self.process_envs.get_or_insert(HashMap::new())
GetOrInsert(o) == IF o = None THEN {} ELSE o[1]

BuilderVars == <<envVars, exeResult, config, consulted, cmd, scanVars, protoVars, lifeVars>>

BuilderWindowSize(wh) ==
  /\ config.tag = "None"
  /\ builder' = [builder EXCEPT !.window_size = Some(wh)]
  /\ UNCHANGED BuilderVars

BuilderNoSandbox ==
  /\ config.tag = "None"
  /\ builder' = [builder EXCEPT !.sandbox = FALSE]
  /\ UNCHANGED BuilderVars

BuilderWithHead ==
  /\ config.tag = "None"
  /\ builder' = [builder EXCEPT !.headless = FALSE]
  /\ UNCHANGED BuilderVars

BuilderUserDataDir(d) ==
  /\ config.tag = "None"
  /\ builder' = [builder EXCEPT !.user_data_dir = Some(d)]
  /\ UNCHANGED BuilderVars

BuilderChromeExecutable(p) ==
  /\ config.tag = "None"
  /\ builder' = [builder EXCEPT !.executable = Some(GivenPath(p))]
  /\ UNCHANGED BuilderVars

BuilderExtension(e) ==
  /\ config.tag = "None"
  /\ Len(builder.extensions) < MaxExt
  /\ builder' = [builder EXCEPT !.extensions = Append(@, e)]
  /\ UNCHANGED BuilderVars

BuilderExtensions(es) ==
  /\ config.tag = "None"
  /\ Len(builder.extensions) + Len(es) <= MaxExt
  /\ builder' = [builder EXCEPT !.extensions = @ \o es]
  /\ UNCHANGED BuilderVars

BuilderEnv(kv) ==
  /\ config.tag = "None"
  /\ builder' = [builder EXCEPT !.process_envs = Some(Insert(GetOrInsert(@), kv))]
  /\ UNCHANGED BuilderVars

BuilderEnvs(it) ==
  /\ config.tag = "None"
  /\ builder' = [builder EXCEPT !.process_envs = Some(Extend(GetOrInsert(@), it))]
  /\ UNCHANGED BuilderVars

\* Lines 382-386: the executable of the config, and whether
\* default_executable was called for it.
BuildExecutableDetectFirst(b, env) ==
  IF DefaultExecutable(env).tag = "Ok" \/ b.executable = None
  THEN [res |-> DefaultExecutable(env), consulted |-> TRUE]
  ELSE [res |-> Found(b.executable[1]), consulted |-> TRUE]

BuildExecutable(b, env) ==
  IF b.executable # None
  THEN [res |-> Found(b.executable[1]), consulted |-> FALSE]
  ELSE [res |-> DefaultExecutable(env), consulted |-> TRUE]

\* Lines 388-397: the BrowserConfig that build returns.
BuildConfig(b, exe) ==
  [tag |-> "Ok", headless |-> b.headless, sandbox |-> b.sandbox,
   window_size |-> b.window_size, port |-> b.port, executable |-> exe,
   extensions |-> b.extensions, process_envs |-> None, user_data_dir |-> None]

\* build(self) with the builder b in the environment env.
BuildResult(b, env) ==
  IF BuildExecutable(b, env).res.tag = "Ok"
  THEN BuildConfig(b, BuildExecutable(b, env).res.path)
  ELSE BuildError

Build ==
  /\ config.tag = "None"
  /\ config' = BuildResult(builder, Environment)
  /\ consulted' = BuildExecutable(builder, Environment).consulted
  /\ UNCHANGED <<envVars, exeResult, builder, cmd, scanVars, protoVars, lifeVars>>

\* BrowserConfig::with_executable(path):
\* Self::builder().chrome_executable(path).build().unwrap()
WithExecutable(p) ==
  /\ config.tag = "None"
  /\ builder = BuilderDefault
  /\ LET b == [BuilderDefault EXCEPT !.executable = Some(GivenPath(p))]
     IN /\ builder' = b
        /\ config' = BuildResult(b, Environment)
        /\ consulted' = BuildExecutable(b, Environment).consulted
  /\ UNCHANGED <<envVars, exeResult, cmd, scanVars, protoVars, lifeVars>>

\* The two pub fields of a BrowserConfig can be assigned by its owner.
SetUserDataDir(d) ==
  /\ config.tag = "Ok"
  /\ ~cmd.spawned
  /\ config' = [config EXCEPT !.user_data_dir = Some(d)]
  /\ UNCHANGED <<envVars, exeResult, builder, consulted, cmd, scanVars, protoVars, lifeVars>>

SetProcessEnvs(m) ==
  /\ config.tag = "Ok"
  /\ ~cmd.spawned
  /\ config' = [config EXCEPT !.process_envs = Some(m)]
  /\ UNCHANGED <<envVars, exeResult, builder, consulted, cmd, scanVars, protoVars, lifeVars>>

\* --------------------------------------------------- BrowserConfig::launch
\* An argument is a flag and the values formatted into it.
Flag(name) == [flag |-> name, val |-> <<>>]

FlagVal(name, v) == [flag |-> name, val |-> v]

\* Lines 403-413: dbg_port and the six arguments after it.
FixedArgs(port) ==
  <<FlagVal("--remote-debugging-port", <<port>>), Flag("--disable-gpu"),
    Flag("--enable-logging"), Flag("--verbose"), Flag("--log-level=0"),
    Flag("--no-first-run"), Flag("--disable-audio-output")>>

DEFAULT_ARGS ==
  <<Flag("--disable-background-networking"),
    Flag("--enable-features=NetworkService,NetworkServiceInProcess"),
    Flag("--disable-background-timer-throttling"),
    Flag("--disable-backgrounding-occluded-windows"),
    Flag("--disable-breakpad"),
    Flag("--disable-client-side-phishing-detection"),
    Flag("--disable-component-extensions-with-background-pages"),
    Flag("--disable-default-apps"),
    Flag("--disable-dev-shm-usage"),
    Flag("--disable-extensions"),
    Flag("--disable-features=TranslateUI"),
    Flag("--disable-hang-monitor"),
    Flag("--disable-ipc-flooding-protection"),
    Flag("--disable-popup-blocking"),
    Flag("--disable-prompt-on-repost"),
    Flag("--disable-renderer-backgrounding"),
    Flag("--disable-sync"),
    Flag("--force-color-profile=srgb"),
    Flag("--metrics-recording-only"),
    Flag("--no-first-run"),
    Flag("--enable-automation"),
    Flag("--password-store=basic"),
    Flag("--use-mock-keychain")>>

\* self.extensions.iter().map(|e| format!("--load-extension={}", e))
ExtensionArgs(exts) == [i \in DOMAIN exts |-> FlagVal("--load-extension", <<exts[i]>>)]

UserDataArgs(dir) ==
  IF dir # None THEN <<FlagVal("--user-data-dir", <<dir[1]>>)>> ELSE <<>>

WindowArgs(size) ==
  IF size # None THEN <<FlagVal("--window-size", size[1])>> ELSE <<>>

SandboxArgsWhenEnabled(sandbox) ==
  IF sandbox THEN <<Flag("--no-sandbox"), Flag("--disable-setuid-sandbox")>> ELSE <<>>

SandboxArgs(sandbox) ==
  IF ~sandbox THEN <<Flag("--no-sandbox"), Flag("--disable-setuid-sandbox")>> ELSE <<>>

HeadlessArgs(headless) ==
  IF headless
  THEN <<Flag("--headless"), Flag("--hide-scrollbars"), Flag("--mute-audio")>>
  ELSE <<>>

\* The arguments of the Command, in the order lines 413-436 add them.
LaunchArgs(c) ==
  FixedArgs(c.port) \o DEFAULT_ARGS \o ExtensionArgs(c.extensions)
    \o UserDataArgs(c.user_data_dir) \o WindowArgs(c.window_size)
    \o SandboxArgs(c.sandbox) \o HeadlessArgs(c.headless)

\* Lines 438-440: cmd.envs(envs) when process_envs is Some.
LaunchEnvs(c) == IF c.process_envs # None THEN c.process_envs[1] ELSE {}

\* launch(&self): the Command that is spawned.
ConfigLaunch ==
  /\ config.tag = "Ok"
  /\ ~cmd.spawned
  /\ cmd' = [spawned |-> TRUE, program |-> config.executable,
             args |-> LaunchArgs(config), envs |-> LaunchEnvs(config),
             stderr |-> "piped"]
  /\ UNCHANGED <<envVars, exeResult, builder, config, consulted, scanVars, protoVars, lifeVars>>

\* The builder is used on machines where default_executable finds a browser
\* through CHROME, through the search list, or not at all.
ConfigInit ==
  /\ ProtoInit(1..NumCallers) /\ LifeInit /\ ScanIdle
  /\ envChrome \in {"unset", "exists"}
  /\ onPath \in {{}, {"chromium"}}
  /\ platform = "linux"
  /\ fallback = FALSE
  /\ exeResult = NoExe
  /\ builder = BuilderDefault
  /\ config = NoConfig
  /\ consulted = FALSE
  /\ cmd = NoCmd

ConfigNext ==
  \/ \E wh \in WindowSizes : BuilderWindowSize(wh)
  \/ BuilderNoSandbox
  \/ BuilderWithHead
  \/ \E d \in Dirs : BuilderUserDataDir(d)
  \/ \E p \in Paths : BuilderChromeExecutable(p)
  \/ \E e \in Extensions : BuilderExtension(e)
  \/ \E es \in SeqsUpTo(Extensions, MaxExt) : BuilderExtensions(es)
  \/ \E kv \in EnvPairs : BuilderEnv(kv)
  \/ \E it \in SeqsUpTo(EnvPairs, MaxEnvs) : BuilderEnvs(it)
  \/ Build
  \/ \E p \in Paths : WithExecutable(p)
  \/ \E d \in Dirs : SetUserDataDir(d)
  \/ \E kv \in EnvPairs : SetProcessEnvs({kv})
  \/ ConfigLaunch

ConfigSpec == ConfigInit /\ [][ConfigNext]_vars

\* ======================================================== properties
\* What the remote answered to the command of caller c.
AnswerTo(c) == {a \in answer : a.params = c}

\* The caller took a reply out of its slot.
Resolved(c) == slot[c].st = "taken"

\* The caller's execute call has returned.
ExecReturned(c) == pc[c] \in {"reg_send", "reg_flush", "page_new", "done"}

\* C1: a command the remote answers with a result of the declared shape
\* makes its execute call return that value, through exactly one reply
\* delivered into its slot and exactly one return.
C1_ResultReturnedOnce ==
  \A c \in Callers :
    /\ deliveries[c] <= 1
    /\ returned[c] <= 1
    /\ \A a \in AnswerTo(c) :
         a.kind = "result" =>
           /\ deliveries[c] = 1
           /\ slot[c].st \in {"filled", "taken"}
           /\ Resolved(c) =>
                /\ returned[c] = 1
                /\ IF op[c] = "execute" THEN outcome[c] = Ok(a.val)
                   ELSE target_id[c] = a.val
    /\ returned[c] = 1 => \E a \in AnswerTo(c) : a.kind = "result"

C1_Witness ==
  \E c \in Callers :
    /\ op[c] = "execute"
    /\ outcome[c].tag = "Ok"
    /\ hstate = "running"
    /\ \E a \in AnswerTo(c) : a.kind = "result" /\ outcome[c].val = a.val

\* C2: with several calls in flight, the reply in a caller's slot is the
\* reply to that caller's own request, in whatever order the replies come.
C2_OwnReply ==
  \A c \in Callers :
    slot[c].st \in {"filled", "taken"} =>
      \E a \in AnswerTo(c) :
        /\ slot[c].resp = ResponseOf(ReplyFrame(a.id, a.kind))
        /\ \A p \in pending : p.id # a.id
        /\ (pc[c] = "done" /\ op[c] = "execute") => outcome[c] = ExecuteResult(slot[c].resp)

\* Two calls in flight, the later request answered first.
C2_Witness ==
  \E c \in Callers, f \in wire :
    /\ f.params # c
    /\ slot[c].st = "filled"
    /\ \E a \in AnswerTo(c) : f.id < a.id

\* A command is submitted until its execute call has returned.
Submitted(c) == pc[c] \in {"flush", "await"}

\* C3: when the socket closes before a reply arrived, the pending execute
\* call resolves to a HandlerGone failure.
C3_ClosedResolves ==
  \A c \in 1..NumCallers :
    (Submitted(c) /\ ~sockOpen /\ slot[c].st = "empty") ~> (outcome[c] \in HandlerGone)

C3_Witness ==
  \E c \in Callers :
    /\ outcome[c] = Err("Canceled")
    /\ hstate = "terminated"
    /\ AnswerTo(c) = {}
    /\ CommandMessageNew(c, MethodOf(op[c])) \in accepted

\* The sender of the envelope at position i of the queue has not got past
\* its send.
SendPending(i) == pc[chan[i].sender] \in {"flush", "reg_flush"}

C5_QueueBounded == Len(chan) <= ChannelBuffer + 1

\* C6: a tab that new_page returned and the Handler registered receives
\* the session frames of its own target, and no registry entry ties a
\* call's channel to the target of another call.
C6_OwnTabRouting ==
  /\ \A e \in tabs : target_id[e.rx] = e.target
  /\ \A c \in Callers :
       (outcome[c].tag = "Page" /\ RegisterTabMsg(c) \in accepted /\ hstate = "running")
         => Forward(tabs, EventFrame(outcome[c].val)) = {c}

\* C7: new_page submits RegisterTab only after its target-creation command
\* was answered with a result, builds the tab only after RegisterTab was
\* submitted and with the returned target identity, and does neither when
\* the command failed.
C7_NewPageOrder ==
  \A c \in Callers :
    /\ RegisterTabMsg(c) \in sent =>
         /\ op[c] = "new_page"
         /\ Resolved(c)
         /\ \E a \in AnswerTo(c) : a.kind = "result" /\ target_id[c] = a.val
    /\ outcome[c].tag = "Page" =>
         /\ RegisterTabMsg(c) \in sent
         /\ outcome[c].val = target_id[c]
    /\ (ExecReturned(c) /\ returned[c] = 0) =>
         /\ RegisterTabMsg(c) \notin sent
         /\ outcome[c].tag = "Err"

C7_Witness ==
  /\ \E c \in Callers : outcome[c].tag = "Page" /\ RegisterTabMsg(c) \in accepted
  /\ \E c \in Callers : op[c] = "new_page" /\ outcome[c] = Err("Protocol")

Gone(b) == bpc[b] \in {"dropped", "panicked"}

\* C8: once the handle of a successful launch is torn down its process no
\* longer runs, and kill was called exactly once, by the teardown.
C8_LaunchThenDrop ==
  \A b \in Browsers :
    how[b] = "launch" =>
      /\ Gone(b) => proc[b] # "running" /\ kills[b] = 1
      /\ ~Gone(b) => kills[b] = 0 /\ proc[b] # "killed"

C8_Witness ==
  \E b \in Browsers : how[b] = "launch" /\ bpc[b] = "dropped" /\ proc[b] = "killed"

\* C9: when launch fails after the spawn, the process does not keep
\* running with no handle left to end it.
C9_NotOrphaned ==
  \A b \in Browsers :
    (how[b] = "launch" /\ bpc[b] = "failed" /\ proc[b] = "running")
      => child[b] \in {"local", "browser"}

\* C10: a kill that fails during teardown does not keep the teardown from
\* completing.
C10_KillFailureNotFatal ==
  \A b \in Browsers : killErr[b] => bpc[b] = "dropped"

\* C12: address discovery returns the address on the first matching line of
\* the stream, trimmed, and nothing else: what the scan returns is the
\* address of the first line that matches on its own, whatever lines that do
\* not match came before it.
C12_FirstMatchWins ==
  /\ ws_url # <<>> => ws_url = firstMatch
  /\ firstMatch # <<>> => ws_url = firstMatch

\* C13: when no line of the stream matches (the stream may have ended or
\* have yielded read errors), launch ends with DiscoveryTimeout and with
\* nothing else.
C13_NoMatchTimesOut ==
  (firstMatch = <<>> /\ launchRes # "pending") => launchRes = "DiscoveryTimeout"

C14_BuilderReachesChild ==
  /\ config.tag = "Ok" =>
       /\ builder.user_data_dir # None => config.user_data_dir = builder.user_data_dir
       /\ builder.process_envs # None => config.process_envs = builder.process_envs
  /\ cmd.spawned =>
       /\ builder.user_data_dir # None =>
            \E i \in DOMAIN cmd.args :
              cmd.args[i] = [flag |-> "--user-data-dir", val |-> builder.user_data_dir]
       /\ builder.process_envs # None => cmd.envs = builder.process_envs[1]

\* C11: execute maps the reply it took out of its slot to its outcome: a
\* result payload gives success, or the deserialization error when its
\* shape does not fit; an error payload without a result gives the protocol
\* error; a reply with neither gives the empty-reply error and never
\* success.  (new_page returns the same errors and goes on after a success.)
C11_ReplyMapping ==
  \A c \in Callers :
    Resolved(c) =>
      LET r == slot[c].resp
          good == r.result.some /\ r.result.shape = "ok"
      IN /\ good =>
              /\ returned[c] = 1
              /\ op[c] = "execute" => outcome[c] = [tag |-> "Ok", val |-> r.result.val, err |-> "-"]
              /\ op[c] = "new_page" => target_id[c] = r.result.val
         /\ ~good =>
              /\ returned[c] = 0
              /\ outcome[c].tag = "Err"
              /\ outcome[c].val = 0
              /\ outcome[c].err =
                   (IF r.result.some THEN "Deserialize"
                    ELSE IF r.error THEN "Protocol" ELSE "Empty Response")

\* C11 witness: the two callers took one an empty reply and the other an
\* error reply out of their slots, and execute returned the two errors.
C11_Witness ==
  /\ \E c \in Callers :
       /\ Resolved(c) /\ ~slot[c].resp.result.some /\ ~slot[c].resp.error
       /\ outcome[c] = Err("Empty Response")
  /\ \E c \in Callers :
       /\ Resolved(c) /\ ~slot[c].resp.result.some /\ slot[c].resp.error
       /\ outcome[c] = Err("Protocol")

\* The arguments of the spawned Command that carry the flag f.
ArgsWith(f) == SelectSeq(cmd.args, LAMBDA a : a.flag = f)

HasFlag(f) == ArgsWith(f) # <<>>

\* C16: the argument list of the spawned Command starts with the
\* debugging-port flag and the fixed baseline; it has the window-size flag
\* iff a window size is configured, the two sandbox-disabling flags iff the
\* sandbox is disabled, the three headless flags iff headless is set, and
\* one --load-extension flag per configured extension, in configuration
\* order.
C16_LaunchArguments ==
  cmd.spawned =>
    /\ cmd.args[1] = [flag |-> "--remote-debugging-port", val |-> <<config.port>>]
    /\ \A i \in DOMAIN DEFAULT_ARGS : cmd.args[7 + i] = DEFAULT_ARGS[i]
    /\ \A f \in {"--disable-gpu", "--enable-logging", "--verbose", "--log-level=0",
                 "--no-first-run", "--disable-audio-output"} : HasFlag(f)
    /\ IF config.window_size = None
       THEN ~HasFlag("--window-size")
       ELSE ArgsWith("--window-size") =
              <<[flag |-> "--window-size", val |-> config.window_size[1]]>>
    /\ \A f \in {"--no-sandbox", "--disable-setuid-sandbox"} :
         HasFlag(f) <=> ~config.sandbox
    /\ \A f \in {"--headless", "--hide-scrollbars", "--mute-audio"} :
         HasFlag(f) <=> config.headless
    /\ Len(ArgsWith("--load-extension")) = Len(config.extensions)
    /\ \A i \in DOMAIN config.extensions :
         ArgsWith("--load-extension")[i].val = <<config.extensions[i]>>

\* C16 witness: a Command was spawned from a config with a window size, no
\* sandbox, a head and two different extensions.
C16_Witness ==
  /\ cmd.spawned
  /\ config.window_size # None
  /\ ~config.sandbox
  /\ ~config.headless
  /\ config.extensions = <<"e2", "e1">>

\* C17: a BrowserConfig has a resolved executable: the explicitly configured
\* path when one was given, without a call of default_executable; otherwise
\* the path default_executable found; build returns an error and no config
\* exactly when no path was given and default_executable found none.  A
\* Command is spawned only from such a config, with that path as program.
C17_ExecutableResolved ==
  /\ config.tag = "Ok" =>
       /\ config.executable # <<>>
       /\ builder.executable # None =>
            (config.executable = builder.executable[1] /\ ~consulted)
       /\ builder.executable = None =>
            (consulted /\ config.executable \in {<<"env", "CHROME">>, <<"which", "chromium">>}
                       /\ (envChrome = "exists" \/ onPath # {}))
  /\ config.tag = "Err" =>
       (builder.executable = None /\ envChrome # "exists" /\ onPath = {})
  /\ cmd.spawned => (config.tag = "Ok" /\ cmd.program = config.executable)

\* C17 witness: build used an explicitly given path on a machine where
\* default_executable finds nothing.
C17_Witness ==
  /\ config.tag = "Ok"
  /\ builder.executable # None
  /\ envChrome = "unset" /\ onPath = {}
  /\ cmd.spawned

\* The Command envelope of caller c's call.
SubmitOf(c) == CommandMessageNew(c, MethodOf(op[c]))

C19_QueuedSubmitFails ==
  \A c \in Callers :
    (hstate = "terminated" /\ SubmitOf(c) \in sent \ accepted) =>
      /\ slot[c].st = "dropped"
      /\ SubmitOf(c) \notin Range(chan)
      /\ pc[c] \in {"flush", "await", "done"}
      /\ pc[c] = "flush" => ENABLED CallerFlush(c)
      /\ pc[c] = "await" => ENABLED CallerAwait(c)
      /\ pc[c] = "done" => (outcome[c] = Err("Canceled") /\ returned[c] = 0)

\* C19 witness: the Handler terminated while the Submit envelopes of two
\* callers were queued; one execute has returned the failure, the other
\* has not yet been polled again.
C19_Witness ==
  /\ hstate = "terminated"
  /\ \E c \in Callers :
       /\ SubmitOf(c) \in sent \ accepted
       /\ pc[c] = "done"
       /\ outcome[c] = Err("Canceled")
  /\ \E c \in Callers :
       /\ SubmitOf(c) \in sent \ accepted
       /\ pc[c] = "flush"

\* C20: a handle obtained through connect never holds a Child, and no kill
\* is ever called for it; kill is called only in the teardown of a handle
\* that a successful launch returned.
C20_ConnectOwnsNothing ==
  \A b \in Browsers :
    /\ how[b] = "connect" =>
         (child[b] = "none" /\ proc[b] = "none" /\ kills[b] = 0 /\ ~killErr[b])
    /\ kills[b] > 0 =>
         (how[b] = "launch" /\ child[b] = "browser" /\ Gone(b))

\* C20 witness: a connected handle was torn down next to a launched one.
C20_Witness ==
  /\ \E b \in Browsers : how[b] = "connect" /\ bpc[b] = "dropped"
  /\ \E b \in Browsers : how[b] = "launch" /\ kills[b] = 1
====
